---- MODULE Spec2Model ----
(***************************************************************************)
(* Model of the casino simulator: the shoe (deck.py), the round engine     *)
(* (blackjack.py), the table turnover (table.py) and the simulation loop   *)
(* (simulation.py, called by main.py).                                     *)
(*                                                                         *)
(* A player is identified by a positive integer; None (0) is the empty     *)
(* seat.  Seats and tables are indexed from 0 as in the source.  The shoe  *)
(* of deck.py holds the source's (rank, suit, value) tuples; in the round  *)
(* engine a card is represented by its blackjack value (the third          *)
(* component), the only component the engine reads.                        *)
(***************************************************************************)
EXTENDS Integers, Sequences, FiniteSets, TLC

VARIABLES
    tables,              \* casino.tables: table_id -> [num_seats, seats_list, current_round_number]
    money_left,          \* Player.money_left, per player
    rounds_left,         \* Player.rounds_left, per player
    history,             \* Player.history, per player: sequence of <<outcome, amount>>
    player_pool,         \* the waiting pool (list of players)
    finished_players,    \* casino.finished_players
    casino_profit,       \* casino.casino_profit
    total_hands_played,  \* casino.total_hands_played
    sim_time,            \* run_simulation: simulated seconds elapsed
    rounds_to_play,      \* run_simulation: number of loop iterations
    rounds_done,         \* run_simulation: iterations of the main loop completed
    table_idx,           \* run_simulation: position of the inner loop over casino.tables
    round_events,        \* run_simulation: events of the current iteration
    minutes,             \* run_simulation: the duration asked for
    saved_roster,        \* the list last written by save_player_pool_to_json
    pc,                  \* run_simulation: position in the function
    num_decks,           \* Deck.__init__: the number of decks asked for
    deck,                \* Deck.deck: the cards of the shoe, the top one last
    draws,               \* number of cards draw_card has returned
    drawn,               \* the cards draw_card has returned, in the order of the draws
    draw_error,          \* the exception the last draw_card raised, if any
    shoe_size,           \* play_round: len(deck.deck) of the shoe of the round
    open_hand,           \* play_round: the values of the hand now being drawn
    hands_to_deal        \* play_round: hands still to draw, the dealer's included

sim_vars == <<tables, money_left, rounds_left, history, player_pool, finished_players,
              casino_profit, total_hands_played, sim_time, rounds_to_play, rounds_done,
              table_idx, round_events, minutes, saved_roster, pc>>

deck_vars == <<num_decks, deck, draws, drawn, draw_error>>

deal_vars == <<shoe_size, open_hand, hands_to_deal>>

vars == <<sim_vars, deck_vars, deal_vars>>

None == 0

-----------------------------------------------------------------------------
(* Program constants *)

HistoryCap == 5
StandAt == 18
BustOver == 21
MinMoney == 100
MinBet == 10
MaxBet == 100
TickSeconds == 10
RevivalPeriod == 1800
MinTopUp == 500
MaxTopUp == 1000
MinExtraRounds == 3
MaxExtraRounds == 10
FirstRound == 1
DefaultDecks == 20
SuitCount == 4
MainMinutes == 32

(* Bounds of the model *)

\* iterations of the main loop the model follows
MaxTicks == 180
\* players appended to the waiting pool of the generated rosters
MaxWaiting == 1
\* decks of the largest shoe built on its own
MaxDecks == 1

(* Input sets *)

\* bets drawn by random.randint(10, 100)
Bets == {b \in {10, 60} : MinBet <= b /\ b <= MaxBet}
\* values of the cards the shuffled shoe yields
DrawValues == {8, 10}
\* revival grants drawn by random.randint(500, 1000) and random.randint(3, 10)
TopUps == {m \in {500, 1000} : MinTopUp <= m /\ m <= MaxTopUp}
ExtraRounds == {r \in {3, 10} : MinExtraRounds <= r /\ r <= MaxExtraRounds}
\* durations passed to run_simulation
Durations == {0, 1, MainMinutes}

-----------------------------------------------------------------------------
(* Sequences *)

RECURSIVE SumSeq(_)
SumSeq(s) == IF s = <<>> THEN 0 ELSE Head(s) + SumSeq(Tail(s))

Range(s) == {s[i] : i \in DOMAIN s}

RECURSIVE SumOver(_, _)
SumOver(f, S) ==
    IF S = {} THEN 0
    ELSE LET x == CHOOSE y \in S : TRUE IN f[x] + SumOver(f, S \ {x})

\* s[-n:] of Python for n > 0
LastN(s, n) == IF Len(s) <= n THEN s ELSE SubSeq(s, Len(s) - n + 1, Len(s))

-----------------------------------------------------------------------------
(* deck.py *)

\* Deck.CARD_LIST: the values of the 13 ranks
CARD_LIST == <<11, 2, 3, 4, 5, 6, 7, 8, 9, 10, 10, 10, 10>>

\* Deck.CARD_LIST: the 13 ranks
RANKS == <<"A", "2", "3", "4", "5", "6", "7", "8", "9", "10", "J", "Q", "K">>

\* Deck.SUITS
SUITS == <<"Heart", "Spade", "Club", "Diamond">>

\* number of cards of value v in a shoe of n decks
DeckCount(n, v) ==
    n * SuitCount * Cardinality({i \in DOMAIN CARD_LIST : CARD_LIST[i] = v})

\* the build loop leaving the last suit out
BuildDeck_SuitMissing(n) ==
    [k \in 1..(n * (Len(SUITS) - 1) * Len(RANKS)) |->
        LET rank == ((k - 1) % Len(RANKS)) + 1
            suit == (((k - 1) \div Len(RANKS)) % (Len(SUITS) - 1)) + 1
        IN <<RANKS[rank], SUITS[suit], CARD_LIST[rank]>>]

\* Deck.__init__: for each deck, for each suit, for each rank, append the card
BuildDeck(n) ==
    [k \in 1..(n * Len(SUITS) * Len(RANKS)) |->
        LET rank == ((k - 1) % Len(RANKS)) + 1
            suit == (((k - 1) \div Len(RANKS)) % Len(SUITS)) + 1
        IN <<RANKS[rank], SUITS[suit], CARD_LIST[rank]>>]

\* the orders random.shuffle is let to produce: the list is cut at a position
\* and the two parts exchanged, or it is reversed
Cuts(cards) == {c \in {0, 7} : c <= Len(cards)}

\* the cut that loses the card at the cut
Cut_CardLost(cards, c) == SubSeq(cards, c + 1, Len(cards)) \o SubSeq(cards, 1, c - 1)

Cut(cards, c) == SubSeq(cards, c + 1, Len(cards)) \o SubSeq(cards, 1, c)

Reverse(cards) == [k \in 1..Len(cards) |-> cards[Len(cards) + 1 - k]]

Shuffled(cards) ==
    {Cut(cards, c) : c \in Cuts(cards)} \cup {Reverse(Cut(cards, c)) : c \in Cuts(cards)}

\* the exception list.pop() raises on an empty list
IndexError == "IndexError"
NoError == "none"

\* Deck(num_decks): the shoe after construction
NewDeck(n) ==
    /\ num_decks = n
    /\ deck = BuildDeck(n)
    /\ draws = 0
    /\ drawn = <<>>
    /\ draw_error = NoError

\* no round is dealt card by card
NoDeal ==
    /\ shoe_size = 0
    /\ open_hand = <<>>
    /\ hands_to_deal = 0

\* no shoe is followed card by card
NoShoe ==
    /\ num_decks = 0
    /\ deck = <<>>
    /\ draws = 0
    /\ drawn = <<>>
    /\ draw_error = NoError

\* no shoe is kept between the rounds of a simulation: play_round builds its own
NoDeck ==
    /\ NoShoe
    /\ NoDeal

\* Deck.shuffle_deck: three shuffles in a row, before the first draw
shuffle_deck ==
    /\ draws = 0
    /\ draw_error = NoError
    /\ \E first \in Shuffled(deck) : \E second \in Shuffled(first) :
           deck' \in Shuffled(second)
    /\ UNCHANGED <<num_decks, draws, drawn, draw_error>>
    /\ UNCHANGED <<sim_vars, deal_vars>>

\* Deck.draw_card: self.deck.pop(), which raises IndexError on an empty list
draw_card ==
    /\ draw_error = NoError
    /\ IF deck # <<>>
       THEN /\ deck' = SubSeq(deck, 1, Len(deck) - 1)
            /\ draws' = draws + 1
            /\ drawn' = Append(drawn, deck[Len(deck)])
            /\ UNCHANGED draw_error
       ELSE /\ draw_error' = IndexError
            /\ UNCHANGED <<deck, draws, drawn>>
    /\ UNCHANGED num_decks
    /\ UNCHANGED <<sim_vars, deal_vars>>

NextDeck ==
    \/ shuffle_deck
    \/ draw_card

-----------------------------------------------------------------------------
(* blackjack.py: hands *)

\* total of a hand: sum of card[2]
Total(hand) == SumSeq(hand)

\* the hit loop with "total <= 18" for "total < 18"
RECURSIVE HitLoop_HitOn18(_)
HitLoop_HitOn18(hand) ==
    IF Total(hand) <= StandAt
    THEN UNION {HitLoop_HitOn18(Append(hand, v)) : v \in DrawValues}
    ELSE {hand}

\* the hit loop: draw while total < 18 (a total over 21 ends it as well)
RECURSIVE HitLoop(_)
HitLoop(hand) ==
    IF Total(hand) < StandAt
    THEN UNION {HitLoop(Append(hand, v)) : v \in DrawValues}
    ELSE {hand}

\* every hand a participant can end the round with: two cards dealt, then the hit loop
PlayedHands == UNION {HitLoop(<<a, b>>) : a \in DrawValues, b \in DrawValues}

\* number of cards of value v in a hand
CountIn(hand, v) == Cardinality({i \in DOMAIN hand : hand[i] = v})

\* the draws of a round are possible only if the fresh shoe holds the cards
ShoeCanDeal(player_hands, dealer_hand) ==
    \A v \in DrawValues :
        LET dealt == [s \in DOMAIN player_hands |-> CountIn(player_hands[s], v)]
        IN SumOver(dealt, DOMAIN player_hands) + CountIn(dealer_hand, v)
               <= DeckCount(DefaultDecks, v)

-----------------------------------------------------------------------------
(* table.py *)

\* Table.__init__: num_seats empty seats, round counter at 1
NewTable(num_seats) ==
    [num_seats |-> num_seats,
     seats_list |-> [i \in 0..(num_seats - 1) |-> None],
     current_round_number |-> FirstRound]

\* the eviction test with a balance of exactly 100 counted as broke
IsFinished_AtMost(money, rounds) == money <= MinMoney \/ rounds <= 0

\* the eviction test of remove_finished_players
IsFinished(money, rounds) == money < MinMoney \/ rounds <= 0

\* Table.remove_finished_players: the loop over seats_list from seat i on
RECURSIVE RemoveLoop(_, _, _, _, _)
RemoveLoop(i, table, finished, money, rounds) ==
    IF i >= table.num_seats
    THEN [table |-> table, finished_players |-> finished]
    ELSE LET player == table.seats_list[i] IN
         IF player # None /\ IsFinished(money[player], rounds[player])
         THEN RemoveLoop(i + 1, [table EXCEPT !.seats_list[i] = None],
                         Append(finished, player), money, rounds)
         ELSE RemoveLoop(i + 1, table, finished, money, rounds)

\* the eviction starting the finished list anew at each call
remove_finished_players_ListReset(table, finished, money, rounds) ==
    RemoveLoop(0, table, <<>>, money, rounds)

remove_finished_players(table, finished, money, rounds) ==
    RemoveLoop(0, table, finished, money, rounds)

\* the fill loop that seats the waiting player without taking the player off the pool
RECURSIVE FillLoop_NoPop(_, _, _)
FillLoop_NoPop(i, table, pool) ==
    IF i >= table.num_seats
    THEN [table |-> table, player_pool |-> pool]
    ELSE IF table.seats_list[i] = None /\ Len(pool) > 0
         THEN FillLoop_NoPop(i + 1, [table EXCEPT !.seats_list[i] = Head(pool)], pool)
         ELSE FillLoop_NoPop(i + 1, table, pool)

\* the fill loop with pop() for pop(0): the last waiting player is seated
RECURSIVE FillLoop_PopLast(_, _, _)
FillLoop_PopLast(i, table, pool) ==
    IF i >= table.num_seats
    THEN [table |-> table, player_pool |-> pool]
    ELSE IF table.seats_list[i] = None /\ Len(pool) > 0
         THEN FillLoop_PopLast(i + 1,
                               [table EXCEPT !.seats_list[i] = pool[Len(pool)]],
                               SubSeq(pool, 1, Len(pool) - 1))
         ELSE FillLoop_PopLast(i + 1, table, pool)

\* the fill loop that stops after the first player it seats
RECURSIVE FillLoop_OneSeatOnly(_, _, _)
FillLoop_OneSeatOnly(i, table, pool) ==
    IF i >= table.num_seats
    THEN [table |-> table, player_pool |-> pool]
    ELSE IF table.seats_list[i] = None /\ Len(pool) > 0
         THEN [table |-> [table EXCEPT !.seats_list[i] = Head(pool)],
               player_pool |-> Tail(pool)]
         ELSE FillLoop_OneSeatOnly(i + 1, table, pool)

\* Table.fill_empty_seats: the loop over seats_list from seat i on
RECURSIVE FillLoop(_, _, _)
FillLoop(i, table, pool) ==
    IF i >= table.num_seats
    THEN [table |-> table, player_pool |-> pool]
    ELSE IF table.seats_list[i] = None /\ Len(pool) > 0
         THEN FillLoop(i + 1, [table EXCEPT !.seats_list[i] = Head(pool)], Tail(pool))
         ELSE FillLoop(i + 1, table, pool)

fill_empty_seats(table, pool) == FillLoop(0, table, pool)

\* "for table in casino.tables: table.fill_empty_seats(player_pool)", from table t on
RECURSIVE FillTables(_, _, _)
FillTables(t, tbls, pool) ==
    IF t \notin DOMAIN tbls
    THEN [tables |-> tbls, player_pool |-> pool]
    ELSE LET r == fill_empty_seats(tbls[t], pool)
         IN FillTables(t + 1, [tbls EXCEPT ![t] = r.table], r.player_pool)

Occupied(table) == {i \in 0..(table.num_seats - 1) : table.seats_list[i] # None}

-----------------------------------------------------------------------------
(* blackjack.py: settlement *)

\* SettleHand without the casino_profit update of the dealer-bust branch
SettleHand_ProfitForgotten(player_total, dealer_total, bet) ==
    IF player_total > BustOver
    THEN [player_change |-> -bet, profit_change |-> bet,
          outcome |-> <<"loss", bet>>, money_delta |-> bet]
    ELSE IF dealer_total > BustOver
    THEN [player_change |-> bet, profit_change |-> 0,
          outcome |-> <<"win", bet>>, money_delta |-> -bet]
    ELSE IF player_total > dealer_total
    THEN [player_change |-> bet, profit_change |-> -bet,
          outcome |-> <<"win", bet>>, money_delta |-> -bet]
    ELSE IF player_total < dealer_total
    THEN [player_change |-> -bet, profit_change |-> bet,
          outcome |-> <<"loss", bet>>, money_delta |-> bet]
    ELSE [player_change |-> 0, profit_change |-> 0,
          outcome |-> <<"push", 0>>, money_delta |-> 0]

\* SettleHand with the dealer-bust test ahead of the player-bust test
SettleHand_DealerBustFirst(player_total, dealer_total, bet) ==
    IF dealer_total > BustOver
    THEN [player_change |-> bet, profit_change |-> -bet,
          outcome |-> <<"win", bet>>, money_delta |-> -bet]
    ELSE IF player_total > BustOver
    THEN [player_change |-> -bet, profit_change |-> bet,
          outcome |-> <<"loss", bet>>, money_delta |-> bet]
    ELSE IF player_total > dealer_total
    THEN [player_change |-> bet, profit_change |-> -bet,
          outcome |-> <<"win", bet>>, money_delta |-> -bet]
    ELSE IF player_total < dealer_total
    THEN [player_change |-> -bet, profit_change |-> bet,
          outcome |-> <<"loss", bet>>, money_delta |-> bet]
    ELSE [player_change |-> 0, profit_change |-> 0,
          outcome |-> <<"push", 0>>, money_delta |-> 0]

\* SettleHand where equal totals count as a win of the player
SettleHand_TieWins(player_total, dealer_total, bet) ==
    IF player_total > BustOver
    THEN [player_change |-> -bet, profit_change |-> bet,
          outcome |-> <<"loss", bet>>, money_delta |-> bet]
    ELSE IF dealer_total > BustOver
    THEN [player_change |-> bet, profit_change |-> -bet,
          outcome |-> <<"win", bet>>, money_delta |-> -bet]
    ELSE IF player_total >= dealer_total
    THEN [player_change |-> bet, profit_change |-> -bet,
          outcome |-> <<"win", bet>>, money_delta |-> -bet]
    ELSE [player_change |-> -bet, profit_change |-> bet,
          outcome |-> <<"loss", bet>>, money_delta |-> bet]

\* the settlement paying the winner of a dealer's bust without charging the house
SettleHand_BustGiftsBet(player_total, dealer_total, bet) ==
    IF player_total > BustOver
    THEN [player_change |-> -bet, profit_change |-> bet,
          outcome |-> <<"loss", bet>>, money_delta |-> bet]
    ELSE IF dealer_total > BustOver
    THEN [player_change |-> bet, profit_change |-> 0,
          outcome |-> <<"win", bet>>, money_delta |-> 0]
    ELSE IF player_total > dealer_total
    THEN [player_change |-> bet, profit_change |-> -bet,
          outcome |-> <<"win", bet>>, money_delta |-> -bet]
    ELSE IF player_total < dealer_total
    THEN [player_change |-> -bet, profit_change |-> bet,
          outcome |-> <<"loss", bet>>, money_delta |-> bet]
    ELSE [player_change |-> 0, profit_change |-> 0,
          outcome |-> <<"push", 0>>, money_delta |-> 0]

\* the five branches of the comparison of one hand with the dealer's
SettleHand(player_total, dealer_total, bet) ==
    IF player_total > BustOver
    THEN [player_change |-> -bet, profit_change |-> bet,
          outcome |-> <<"loss", bet>>, money_delta |-> bet]
    ELSE IF dealer_total > BustOver
    THEN [player_change |-> bet, profit_change |-> -bet,
          outcome |-> <<"win", bet>>, money_delta |-> -bet]
    ELSE IF player_total > dealer_total
    THEN [player_change |-> bet, profit_change |-> -bet,
          outcome |-> <<"win", bet>>, money_delta |-> -bet]
    ELSE IF player_total < dealer_total
    THEN [player_change |-> -bet, profit_change |-> bet,
          outcome |-> <<"loss", bet>>, money_delta |-> bet]
    ELSE [player_change |-> 0, profit_change |-> 0,
          outcome |-> <<"push", 0>>, money_delta |-> 0]

\* the history cut with [:5] for [-5:]: the newest entry is the one dropped
RecordOutcome_KeepFirst(hist, outcome) ==
    LET appended == Append(hist, outcome)
    IN IF Len(appended) > HistoryCap THEN SubSeq(appended, 1, HistoryCap) ELSE appended

\* player.history.append(outcome), then the cut to the last 5
RecordOutcome(hist, outcome) ==
    LET appended == Append(hist, outcome)
    IN IF Len(appended) > HistoryCap THEN LastN(appended, HistoryCap) ELSE appended

\* the settlement loop with the result of a push left out of the event
RECURSIVE SettleLoop_PushUnreported(_, _, _)
SettleLoop_PushUnreported(i, deal, st) ==
    IF i >= deal.table.num_seats
    THEN st
    ELSE IF i \notin DOMAIN deal.player_hands
    THEN SettleLoop_PushUnreported(i + 1, deal, st)
    ELSE LET player == deal.table.seats_list[i]
             r == SettleHand(Total(deal.player_hands[i]), deal.dealer_total,
                             deal.initial_bets[i])
         IN SettleLoop_PushUnreported(i + 1, deal,
                [money |-> [st.money EXCEPT ![player] = @ + r.player_change],
                 history |-> [st.history EXCEPT ![player] = RecordOutcome(@, r.outcome)],
                 profit |-> st.profit + r.profit_change,
                 results |-> IF r.outcome[1] = "push" THEN st.results
                             ELSE Append(st.results,
                                         [seat_index |-> i, player |-> player,
                                          money_delta |-> r.money_delta])])

\* "for seat_index, hand in player_hands.items()": the settlement loop from seat i on.
\* deal: [table, initial_bets, player_hands, dealer_total];
\* st: [money, history, profit, results]
RECURSIVE SettleLoop(_, _, _)
SettleLoop(i, deal, st) ==
    IF i >= deal.table.num_seats
    THEN st
    ELSE IF i \notin DOMAIN deal.player_hands
    THEN SettleLoop(i + 1, deal, st)
    ELSE LET player == deal.table.seats_list[i]
             r == SettleHand(Total(deal.player_hands[i]), deal.dealer_total,
                             deal.initial_bets[i])
         IN SettleLoop(i + 1, deal,
                [money |-> [st.money EXCEPT ![player] = @ + r.player_change],
                 history |-> [st.history EXCEPT ![player] = RecordOutcome(@, r.outcome)],
                 profit |-> st.profit + r.profit_change,
                 results |-> Append(st.results,
                                    [seat_index |-> i, player |-> player,
                                     money_delta |-> r.money_delta])])

\* the decrement passing over the last seat of the table
DecrementRounds_LastSeatSkipped(table, rounds) ==
    [p \in DOMAIN rounds |->
        rounds[p] - Cardinality({i \in Occupied(table) :
                                    /\ i < table.num_seats - 1
                                    /\ table.seats_list[i] = p})]

\* the decrement applied to every player of the run
DecrementRounds_Everyone(table, rounds) ==
    [p \in DOMAIN rounds |-> rounds[p] - 1]

\* "for seat in table.seats_list: seat.player.rounds_left -= 1"
DecrementRounds(table, rounds) ==
    [p \in DOMAIN rounds |->
        rounds[p] - Cardinality({i \in Occupied(table) : table.seats_list[i] = p})]

\* seats_after with the empty seats left out
SeatsAfter_TakenOnly(table, money, rounds) ==
    SelectSeq([k \in 1..table.num_seats |->
                  LET player == table.seats_list[k - 1] IN
                  IF player # None
                  THEN [seat |-> k - 1, player |-> player,
                        money |-> money[player], rounds |-> rounds[player]]
                  ELSE [seat |-> k - 1, player |-> None]],
              LAMBDA entry : entry.player # None)

\* event["seats_after"]
SeatsAfter(table, money, rounds) ==
    [k \in 1..table.num_seats |->
        LET player == table.seats_list[k - 1] IN
        IF player # None
        THEN [seat |-> k - 1, player |-> player,
              money |-> money[player], rounds |-> rounds[player]]
        ELSE [seat |-> k - 1, player |-> None]]

\* the count of hands with the dealer's hand counted as well
HandsPlayed_WithDealer(hands, occupied) == hands + Cardinality(occupied) + 1

\* the count of hands advanced once for the round
HandsPlayed_OncePerRound(hands, occupied) == hands + 1

\* line 118: casino.total_hands_played += 1 for each occupied seat
HandsPlayed(hands, occupied) == hands + Cardinality(occupied)

\* the counter advanced only when a seat of the table is taken
AdvanceRound_OnlyIfSeated(table) ==
    IF Occupied(table) = {} THEN table
    ELSE [table EXCEPT !.current_round_number = @ + 1]

\* line 245: table.current_round_number += 1
AdvanceRound(table) == [table EXCEPT !.current_round_number = @ + 1]

\* the profit at the return reported for the change of the profit
ProfitDelta_Absolute(profit, starting_profit) == profit

\* lines 263-264: profit_delta = casino.casino_profit - starting_profit
ProfitDelta(profit, starting_profit) == profit - starting_profit

\* the body of play_round on table t, for the bets and the cards drawn, from the
\* state st: [tables, money, rounds, history, player_pool, finished_players,
\* profit, hands]; the state at the return, with the event returned
RoundOutcome(t, initial_bets, player_hands, dealer_hand, st) ==
    LET table == st.tables[t]
        starting_profit == st.profit
        deal == [table |-> table, initial_bets |-> initial_bets,
                 player_hands |-> player_hands,
                 dealer_total |-> Total(dealer_hand)]
        settled == SettleLoop(0, deal,
                      [money |-> st.money, history |-> st.history,
                       profit |-> st.profit, results |-> <<>>])
        rounds == DecrementRounds(table, st.rounds)
        removed == remove_finished_players(table, st.finished_players,
                                           settled.money, rounds)
        filled == fill_empty_seats(removed.table, st.player_pool)
        after == AdvanceRound(filled.table)
    IN [tables |-> [st.tables EXCEPT ![t] = after],
        money |-> settled.money,
        rounds |-> rounds,
        history |-> settled.history,
        player_pool |-> filled.player_pool,
        finished_players |-> removed.finished_players,
        profit |-> settled.profit,
        hands |-> HandsPlayed(st.hands, Occupied(table)),
        event |-> [table_id |-> t,
                   round_num |-> table.current_round_number,
                   initial_bets |-> initial_bets,
                   results |-> settled.results,
                   seats_after |-> SeatsAfter(after, settled.money, rounds),
                   profit_delta |-> ProfitDelta(settled.profit, starting_profit),
                   hands |-> player_hands,
                   dealer_hand |-> dealer_hand]]

\* the state play_round works on
RoundState ==
    [tables |-> tables, money |-> money_left, rounds |-> rounds_left,
     history |-> history, player_pool |-> player_pool,
     finished_players |-> finished_players, profit |-> casino_profit,
     hands |-> total_hands_played]

\* play_round(casino, table, player_pool) on table t; the caller appends the event
play_round(t) ==
    LET occupied == Occupied(tables[t])
    IN \E initial_bets \in [occupied -> Bets],
          player_hands \in [occupied -> PlayedHands],
          dealer_hand \in PlayedHands :
        /\ ShoeCanDeal(player_hands, dealer_hand)
        /\ LET r == RoundOutcome(t, initial_bets, player_hands, dealer_hand, RoundState)
           IN /\ tables' = r.tables
              /\ money_left' = r.money
              /\ history' = r.history
              /\ rounds_left' = r.rounds
              /\ casino_profit' = r.profit
              /\ total_hands_played' = r.hands
              /\ finished_players' = r.finished_players
              /\ player_pool' = r.player_pool
              /\ round_events' = Append(round_events, r.event)

-----------------------------------------------------------------------------
(* player_factory.py *)

\* the seated players of the tables from table t on, table by table, seat by seat
RECURSIVE SeatedFrom(_, _)
SeatedFrom(t, tbls) ==
    IF t \notin DOMAIN tbls THEN <<>>
    ELSE LET seats == [k \in 1..tbls[t].num_seats |-> tbls[t].seats_list[k - 1]]
         IN SelectSeq(seats, LAMBDA player : player # None) \o SeatedFrom(t + 1, tbls)

\* the roster without the finished players
collect_all_players_NoFinished(tbls, pool, finished) ==
    SeatedFrom(0, tbls) \o pool

\* collect_all_players: the seated players, then the waiting pool, then the finished
collect_all_players(tbls, pool, finished) ==
    SeatedFrom(0, tbls) \o pool \o finished

\* save_player_pool_to_json: the fields of each player of the list, as written
SavedRecords(all_players, money, rounds, hist) ==
    [k \in DOMAIN all_players |->
        [player |-> all_players[k],
         money_left |-> money[all_players[k]],
         rounds_left |-> rounds[all_players[k]],
         history |-> hist[all_players[k]]]]

\* nothing written yet
NotSaved == <<>>

-----------------------------------------------------------------------------
(* simulation.py: run_simulation *)

\* list.remove(x): drop the first occurrence of x
RECURSIVE RemoveFirst(_, _)
RemoveFirst(s, x) ==
    IF s = <<>> THEN <<>>
    ELSE IF Head(s) = x THEN Tail(s)
    ELSE <<Head(s)>> \o RemoveFirst(Tail(s), x)

\* the move loop with insert(0, player) for append(player)
RECURSIVE MoveRevived_Prepend(_, _, _, _)
MoveRevived_Prepend(k, revived, finished, pool) ==
    IF k > Len(revived)
    THEN [finished_players |-> finished, player_pool |-> pool]
    ELSE MoveRevived_Prepend(k + 1, revived, RemoveFirst(finished, revived[k]),
                             <<revived[k]>> \o pool)

\* "for player in revived_players: finished_players.remove(player);
\*  player_pool.append(player)", from position k of revived on
RECURSIVE MoveRevived(_, _, _, _)
MoveRevived(k, revived, finished, pool) ==
    IF k > Len(revived)
    THEN [finished_players |-> finished, player_pool |-> pool]
    ELSE MoveRevived(k + 1, revived, RemoveFirst(finished, revived[k]),
                     Append(pool, revived[k]))

\* the grants of the revival without the rounds
RECURSIVE GrantLoop_MoneyOnly(_, _, _, _, _)
GrantLoop_MoneyOnly(k, finished, grant, money, rounds) ==
    IF k > Len(finished)
    THEN [money |-> money, rounds |-> rounds]
    ELSE GrantLoop_MoneyOnly(k + 1, finished, grant,
                             [money EXCEPT ![finished[k]] = @ + grant[k][1]],
                             rounds)

\* "for player in casino.finished_players: money_left += ..., rounds_left += ..."
\* grant[k] is the pair drawn for the k-th finished player
RECURSIVE GrantLoop(_, _, _, _, _)
GrantLoop(k, finished, grant, money, rounds) ==
    IF k > Len(finished)
    THEN [money |-> money, rounds |-> rounds]
    ELSE GrantLoop(k + 1, finished, grant,
                   [money EXCEPT ![finished[k]] = @ + grant[k][1]],
                   [rounds EXCEPT ![finished[k]] = @ + grant[k][2]])

\* the revival test with half the period
RevivalDue_HalfPeriod(time) == time % (RevivalPeriod \div 2) = 0

\* the revival test of the main loop
RevivalDue(time) == time % RevivalPeriod = 0

\* the number of iterations with one iteration too many
RoundsToPlay_OneMore(mins) == (mins * 60) \div TickSeconds + 1

\* rounds_to_play = (minutes * 60) // 10
RoundsToPlay(mins) == (mins * 60) \div TickSeconds

\* lines 69-71: the initial fill of every table, then the loop test
InitialFill ==
    /\ pc = "fill"
    /\ LET r == FillTables(0, tables, player_pool)
       IN /\ tables' = r.tables
          /\ player_pool' = r.player_pool
    /\ pc' = IF rounds_done < rounds_to_play THEN "play" ELSE "final"
    /\ UNCHANGED <<minutes, saved_roster>>
    /\ UNCHANGED <<deck_vars, deal_vars>>
    /\ UNCHANGED <<money_left, rounds_left, history, finished_players, casino_profit,
                   total_hands_played, sim_time, rounds_to_play, rounds_done,
                   table_idx, round_events>>

\* lines 80-82: one pass of "for table in casino.tables: play_round(...)"
PlayTable ==
    /\ pc = "play"
    /\ rounds_done < MaxTicks
    /\ table_idx \in DOMAIN tables
    /\ play_round(table_idx)
    /\ table_idx' = table_idx + 1
    /\ pc' = IF table_idx + 1 \in DOMAIN tables THEN "play" ELSE "clock"
    /\ UNCHANGED <<minutes, saved_roster>>
    /\ UNCHANGED <<deck_vars, deal_vars>>
    /\ UNCHANGED <<sim_time, rounds_to_play, rounds_done>>

\* lines 84-110: the clock advances, the events are displayed, the loop sleeps.
\* The events are not read after the display: the model drops them here.
AdvanceClock ==
    /\ pc = "clock"
    /\ sim_time' = sim_time + TickSeconds
    /\ round_events' = <<>>
    /\ pc' = "revive"
    /\ UNCHANGED <<minutes, saved_roster>>
    /\ UNCHANGED <<deck_vars, deal_vars>>
    /\ UNCHANGED <<tables, money_left, rounds_left, history, player_pool,
                   finished_players, casino_profit, total_hands_played,
                   rounds_to_play, rounds_done, table_idx>>

\* lines 112-131: the revival sweep, when due
Revival ==
    /\ pc = "revive"
    /\ IF RevivalDue(sim_time)
       THEN \E grant \in [1..Len(finished_players) -> TopUps \X ExtraRounds] :
               LET g == GrantLoop(1, finished_players, grant, money_left, rounds_left)
                   revived_players == finished_players
                   m == MoveRevived(1, revived_players, finished_players, player_pool)
               IN /\ money_left' = g.money
                  /\ rounds_left' = g.rounds
                  /\ finished_players' = m.finished_players
                  /\ player_pool' = m.player_pool
       ELSE UNCHANGED <<money_left, rounds_left, finished_players, player_pool>>
    /\ pc' = "save"
    /\ UNCHANGED <<minutes, saved_roster>>
    /\ UNCHANGED <<deck_vars, deal_vars>>
    /\ UNCHANGED <<tables, history, casino_profit, total_hands_played, sim_time,
                   rounds_to_play, rounds_done, table_idx, round_events>>

\* lines 133-139: the roster is saved, the tables are refilled; then the loop test
\* and, for another iteration, line 77
SaveAndRefill ==
    /\ pc = "save"
    /\ LET r == FillTables(0, tables, player_pool)
       IN /\ tables' = r.tables
          /\ player_pool' = r.player_pool
    /\ rounds_done' = rounds_done + 1
    /\ saved_roster' = SavedRecords(collect_all_players(tables, player_pool, finished_players),
                                    money_left, rounds_left, history)
    /\ UNCHANGED minutes
    /\ UNCHANGED <<deck_vars, deal_vars>>
    /\ IF rounds_done + 1 < rounds_to_play
       THEN pc' = "play" /\ table_idx' = 0
       ELSE pc' = "final" /\ UNCHANGED table_idx
    /\ UNCHANGED <<round_events, money_left, rounds_left, history, finished_players, casino_profit,
                   total_hands_played, sim_time, rounds_to_play>>

\* lines 141-146: the final save and the return of sim_time
FinalSave ==
    /\ pc = "final"
    /\ pc' = "done"
    /\ saved_roster' = SavedRecords(collect_all_players(tables, player_pool, finished_players),
                                    money_left, rounds_left, history)
    /\ UNCHANGED minutes
    /\ UNCHANGED <<deck_vars, deal_vars>>
    /\ UNCHANGED <<tables, money_left, rounds_left, history, player_pool,
                   finished_players, casino_profit, total_hands_played, sim_time,
                   rounds_to_play, rounds_done, table_idx, round_events>>

Next ==
    \/ InitialFill
    \/ PlayTable
    \/ AdvanceClock
    \/ Revival
    \/ SaveAndRefill
    \/ FinalSave

\* a KeyboardInterrupt raised while the main loop runs: run_simulation has no
\* handler, the exception leaves it for main.py, whose handler prints a message
Interrupt ==
    /\ pc \in {"play", "clock", "revive", "save"}
    /\ pc' = "interrupted"
    /\ UNCHANGED <<tables, money_left, rounds_left, history, player_pool,
                   finished_players, casino_profit, total_hands_played, sim_time,
                   rounds_to_play, rounds_done, table_idx, round_events,
                   minutes, saved_roster>>
    /\ UNCHANGED <<deck_vars, deal_vars>>

NextInterruptible ==
    \/ Next
    \/ Interrupt

-----------------------------------------------------------------------------
(* The state at the entry of run_simulation *)

\* a player record as the factory or the saved roster provides it
NewPlayer(money, rounds, hist) ==
    [money_left |-> money, rounds_left |-> rounds, history |-> hist]

\* the players that wait behind the others in the generated rosters
Waiting(n) == [k \in 1..n |-> NewPlayer(1000, 1, <<>>)]

\* main.py: the casino with its tables, the whole roster waiting, nothing played yet
Start(seat_counts, roster, mins) ==
    /\ tables = [t \in 0..(Len(seat_counts) - 1) |-> NewTable(seat_counts[t + 1])]
    /\ money_left = [p \in DOMAIN roster |-> roster[p].money_left]
    /\ rounds_left = [p \in DOMAIN roster |-> roster[p].rounds_left]
    /\ history = [p \in DOMAIN roster |-> roster[p].history]
    /\ player_pool = [k \in DOMAIN roster |-> k]
    /\ finished_players = <<>>
    /\ casino_profit = 0
    /\ total_hands_played = 0
    /\ sim_time = 0
    /\ rounds_to_play = RoundsToPlay(mins)
    /\ minutes = mins
    /\ rounds_done = 0
    /\ table_idx = 0
    /\ round_events = <<>>
    /\ saved_roster = NotSaved
    /\ pc = "fill"
    /\ NoDeck

\* full runs: one table of one seat and two players
StartRoster == <<NewPlayer(150, 1, <<>>), NewPlayer(1000, 1, <<>>)>>

Init ==
    \E mins \in Durations : Start(<<1>>, StartRoster, mins)

Spec == Init /\ [][Next]_vars

-----------------------------------------------------------------------------
(* The last iteration of a run, and runs of no iteration, on larger casinos *)

\* a history of HistoryCap entries
FullHistory ==
    <<<<"win", 10>>, <<"loss", 60>>, <<"push", 0>>, <<"win", 60>>, <<"loss", 10>>>>

\* the head of the main loop after `done` iterations of a run of `minutes` minutes:
\* seated[t + 1][i + 1] holds seat i of table t
LoopHead(seat_counts, seated, pool, finished, roster, profit, hands, mins, done) ==
    /\ tables = [t \in 0..(Len(seat_counts) - 1) |->
                    [num_seats |-> seat_counts[t + 1],
                     seats_list |-> [i \in 0..(seat_counts[t + 1] - 1) |->
                                        seated[t + 1][i + 1]],
                     current_round_number |-> FirstRound + done]]
    /\ money_left = [p \in DOMAIN roster |-> roster[p].money_left]
    /\ rounds_left = [p \in DOMAIN roster |-> roster[p].rounds_left]
    /\ history = [p \in DOMAIN roster |-> roster[p].history]
    /\ player_pool = pool
    /\ finished_players = finished
    /\ casino_profit = profit
    /\ total_hands_played = hands
    /\ sim_time = TickSeconds * done
    /\ rounds_to_play = RoundsToPlay(mins)
    /\ minutes = mins
    /\ rounds_done = done
    /\ table_idx = 0
    /\ round_events = <<>>
    /\ saved_roster = SavedRecords(collect_all_players(tables, player_pool, finished_players),
                                   money_left, rounds_left, history)
    /\ pc = "play"
    /\ NoDeck

\* what the loop keeps true at its head: each player in one place, a seat empty
\* only when nobody waits, finished players broke or out of rounds, histories cut
LoopHeadOK ==
    LET held == [t \in DOMAIN tables |->
                    Cardinality(Occupied(tables[t]))]
        seated == UNION {{tables[t].seats_list[i] : i \in Occupied(tables[t])} :
                            t \in DOMAIN tables}
    IN /\ Cardinality(seated) = SumOver(held, DOMAIN tables)
       /\ Cardinality(Range(player_pool)) = Len(player_pool)
       /\ Cardinality(Range(finished_players)) = Len(finished_players)
       /\ seated \cap Range(player_pool) = {}
       /\ seated \cap Range(finished_players) = {}
       /\ Range(player_pool) \cap Range(finished_players) = {}
       /\ seated \cup Range(player_pool) \cup Range(finished_players) = DOMAIN money_left
       /\ player_pool # <<>> =>
             \A t \in DOMAIN tables : Cardinality(Occupied(tables[t])) = tables[t].num_seats
       /\ \A p \in Range(finished_players) : IsFinished(money_left[p], rounds_left[p])
       /\ \A p \in DOMAIN history : Len(history[p]) <= HistoryCap
       /\ rounds_done < rounds_to_play

\* the last iteration of a run of 1 minute (no revival) or of 30 minutes (revival)
LastIterations == {<<1, 5>>, <<30, 179>>}

\* two seats taken, players waiting, one finished
TurnoverCase(run) ==
    LET n == MaxWaiting IN
    LoopHead(<<2>>, <<<<1, 2>>>>, [k \in 1..(n + 1) |-> k + 3], <<3>>,
             <<NewPlayer(50, 3, FullHistory), NewPlayer(110, 2, <<>>),
               NewPlayer(20, 0, <<<<"loss", 60>>>>),
               NewPlayer(1000, 5, <<<<"win", 10>>>>)>> \o Waiting(n),
             240, 17, run[1], run[2])

\* two tables, nobody waiting, two finished
TwoTablesCase(run) ==
    LoopHead(<<1, 1>>, <<<<1>>, <<2>>>>, <<>>, <<3, 4>>,
             <<NewPlayer(1000, 1, <<>>),
               NewPlayer(100, 4, SubSeq(FullHistory, 1, 4)),
               NewPlayer(90, 2, <<>>), NewPlayer(500, 0, FullHistory)>>,
             -50, 9, run[1], run[2])

\* two tables of one taken seat each, one player waiting for a seat
WaitingAtTwoTablesCase(run) ==
    LoopHead(<<1, 1>>, <<<<1>>, <<2>>>>, <<3>>, <<>>,
             <<NewPlayer(1000, 1, <<>>), NewPlayer(130, 5, <<<<"loss", 60>>>>),
               NewPlayer(500, 2, <<>>)>>,
             60, 4, run[1], run[2])

\* an empty seat beside a taken one, nobody waiting
EmptySeatCase(run) ==
    LoopHead(<<2>>, <<<<None, 1>>>>, <<>>, <<2, 3>>,
             <<NewPlayer(160, 1, FullHistory), NewPlayer(-10, 2, <<<<"loss", 60>>>>),
               NewPlayer(300, 0, <<>>)>>,
             0, 3, run[1], run[2])

\* no seat taken at any table, everybody finished
EmptyCasinoCase(run) ==
    LoopHead(<<1, 2>>, <<<<None>>, <<None, None>>>>, <<>>,
             [k \in 1..(MaxWaiting + 1) |-> k],
             [k \in 1..(MaxWaiting + 1) |-> NewPlayer(40 + k, 1 - k, <<>>)],
             10, 2, run[1], run[2])

\* runs of no iteration on casinos with more or fewer seats than players
NoIterationCase ==
    \E seat_counts \in {<<2>>, <<1, 2>>, <<2, 2>>} :
        Start(seat_counts,
              <<NewPlayer(1000, 5, <<>>), NewPlayer(50, 3, FullHistory)>>
                  \o Waiting(MaxWaiting),
              0)

InitLast ==
    /\ \/ \E run \in LastIterations :
            \/ TurnoverCase(run)
            \/ TwoTablesCase(run)
            \/ WaitingAtTwoTablesCase(run)
            \/ EmptySeatCase(run)
            \/ EmptyCasinoCase(run)
       \/ NoIterationCase
    /\ pc = "play" => LoopHeadOK

SpecLast == InitLast /\ [][Next]_vars

\* full runs and last iterations together
InitAll == Init \/ InitLast

SpecAll == InitAll /\ [][Next]_vars

\* the same runs, open to an interrupt
SpecInterrupt == InitAll /\ [][NextInterruptible]_vars

-----------------------------------------------------------------------------
(* A shoe on its own *)

\* no simulation runs beside the shoe
NoSimulation ==
    /\ tables = <<>>
    /\ money_left = <<>>
    /\ rounds_left = <<>>
    /\ history = <<>>
    /\ player_pool = <<>>
    /\ finished_players = <<>>
    /\ casino_profit = 0
    /\ total_hands_played = 0
    /\ sim_time = 0
    /\ rounds_to_play = 0
    /\ rounds_done = 0
    /\ table_idx = 0
    /\ round_events = <<>>
    /\ minutes = 0
    /\ saved_roster = NotSaved
    /\ pc = "none"

InitDeck ==
    /\ \E n \in 0..MaxDecks : NewDeck(n)
    /\ NoDeal
    /\ NoSimulation

SpecDeck == InitDeck /\ [][NextDeck]_vars

-----------------------------------------------------------------------------
(* blackjack.py: the draws of one round, card by card *)

\* seats of the largest table main.py lets the user configure
MaxSeats == 10

\* values of the cards the shoe yields to the round followed card by card:
\* the lowest two of CARD_LIST, which make the longest hands, and a ten
DealValues == {v \in {2, 3, 10} : \E k \in DOMAIN CARD_LIST : CARD_LIST[k] = v}

\* Deck(): the number of cards of the default shoe
DefaultShoeSize == DefaultDecks * SuitCount * Len(CARD_LIST)

\* the test of the hit loops with 21 for 18
MustHit_Below21(total) == total <= BustOver - 1

\* the test of the hit loops: while total < 18
MustHit(total) == total < StandAt

\* the hand being drawn lacks a card: one of the two dealt, or one the hit loop asks for
DrawDue == hands_to_deal > 0 /\ (Len(open_hand) < 2 \/ MustHit(Total(open_hand)))

\* play_round starts on a table with `occupied` players: a fresh shoe, and a
\* hand to draw for each player and for the dealer
InitDeal ==
    /\ shoe_size = DefaultShoeSize
    /\ open_hand = <<>>
    /\ \E occupied \in 0..MaxSeats : hands_to_deal = occupied + 1
    /\ NoShoe
    /\ NoSimulation

\* deck.draw_card() for the hand being drawn; the shoe yields any value, since
\* its order is not known; a draw from the empty shoe raises and ends the round.
\* The source deals two cards to every hand before the first hit loop: here the
\* hands are drawn one after the other, which leaves the number of draws the same.
HitCard ==
    /\ DrawDue
    /\ shoe_size > 0
    /\ \E v \in DealValues : open_hand' = Append(open_hand, v)
    /\ shoe_size' = shoe_size - 1
    /\ UNCHANGED hands_to_deal
    /\ UNCHANGED <<sim_vars, deck_vars>>

\* the hit loop of the hand ends: the next hand is drawn
StandHand ==
    /\ hands_to_deal > 0
    /\ ~DrawDue
    /\ open_hand' = <<>>
    /\ hands_to_deal' = hands_to_deal - 1
    /\ UNCHANGED shoe_size
    /\ UNCHANGED <<sim_vars, deck_vars>>

NextDeal ==
    \/ HitCard
    \/ StandHand

SpecDeal == InitDeal /\ [][NextDeal]_vars

-----------------------------------------------------------------------------

(* ui.py: the table view of a round event *)

\* the outcome text of a row: "Lost d", "Won d" or "Push"
OutcomeText(delta) ==
    IF delta > 0 THEN <<"Lost", delta>>
    ELSE IF delta < 0 THEN <<"Won", -delta>>
    ELSE <<"Push", 0>>

\* the text of the outcome column of an empty seat
NoOutcome == <<>>

\* the positions of the results of a seat in event["results"]
ResultsAtSeat(event, seat) == {k \in DOMAIN event.results : event.results[k].seat_index = seat}

\* for seat_info in seats_after: the row printed for the seat; the name is the
\* one of seats_after, the outcome the one of the first result of the seat
\* ("Push" when the seat has none)
SeatRow(event, seat_info) ==
    IF seat_info.player = None
    THEN [seat |-> seat_info.seat, name |-> None, outcome |-> NoOutcome]
    ELSE LET found == ResultsAtSeat(event, seat_info.seat) IN
         [seat |-> seat_info.seat,
          name |-> seat_info.player,
          outcome |-> IF found = {} THEN <<"Push", 0>>
                      ELSE LET first == CHOOSE k \in found : \A j \in found : k <= j
                           IN OutcomeText(event.results[first].money_delta)]

\* the seat rows of the view
SeatRows(event) == [k \in DOMAIN event.seats_after |-> SeatRow(event, event.seats_after[k])]

\* the name found for a result: the player of seats_after at the seat of the
\* result, None when the seat is empty
PlayerNameFor(event, r) ==
    LET found == {k \in DOMAIN event.seats_after :
                     /\ event.seats_after[k].seat = r.seat_index
                     /\ event.seats_after[k].player # None}
    IN IF found = {} THEN None
       ELSE event.seats_after[CHOOSE k \in found : \A j \in found : k <= j].player

\* the lists and totals before the first result
EmptyBox ==
    [winners |-> <<>>, losers |-> <<>>, pushes |-> <<>>,
     total_winnings |-> 0, total_losses |-> 0, total_bets |-> 0]

\* the entry of a result under `name`, added to the lists and totals
Counted(box, name, delta) ==
    IF delta < 0
    THEN [box EXCEPT !.winners = Append(@, <<name, -delta>>),
                     !.total_winnings = @ - delta,
                     !.total_bets = @ - delta]
    ELSE IF delta > 0
    THEN [box EXCEPT !.losers = Append(@, <<name, delta>>),
                     !.total_losses = @ + delta,
                     !.total_bets = @ + delta]
    ELSE [box EXCEPT !.pushes = Append(@, name)]

\* for r in results: the winners, losers and pushes lists and the totals; a
\* result for which no name is found is skipped
RECURSIVE ResultBox(_, _, _)
ResultBox(k, event, box) ==
    IF k > Len(event.results)
    THEN box
    ELSE LET r == event.results[k]
             player_name == PlayerNameFor(event, r)
         IN ResultBox(k + 1, event,
                      IF player_name # None
                      THEN Counted(box, player_name, r.money_delta)
                      ELSE box)

\* what display_table_view shows of an event: the seat rows, and the lists
\* and totals of the results box
display_table_view(event) ==
    [rows |-> SeatRows(event), box |-> ResultBox(1, event, EmptyBox)]

-----------------------------------------------------------------------------

(* Vocabulary of the properties *)

Players == DOMAIN money_left

\* the step is a play_round call: it is the only step that adds an event
RoundPlayed == pc = "play" /\ Len(round_events') = Len(round_events) + 1

\* the event that call returned
NewEvent == round_events'[Len(round_events')]

\* the table of that call, at its entry
EntryTable == tables[table_idx]

\* the result entries of an event for seat i
ResultsOf(event, i) == {k \in DOMAIN event.results : event.results[k].seat_index = i}

LastOf(s) == s[Len(s)]

\* casino_profit moves by the sum of the money_delta of the call's results
ProfitFollowsResults ==
    casino_profit' - casino_profit =
        SumSeq([k \in DOMAIN NewEvent.results |-> NewEvent.results[k].money_delta])

-----------------------------------------------------------------------------
(* C1 *)

\* C1: over every play_round call, the sum over all players of the change of
\* money_left equals minus the change of casino_profit.
C1_ZeroSum ==
    [][RoundPlayed =>
         SumOver(money_left', Players) - SumOver(money_left, Players)
             = -(casino_profit' - casino_profit)]_vars

\* a round at a table of two taken seats, one player winning and one losing
\* different bets, has been played
C1_Witness ==
    \E k \in DOMAIN round_events :
        LET e == round_events[k] IN
        /\ Len(e.results) = 2
        /\ e.results[1].money_delta > 0
        /\ e.results[2].money_delta < 0
        /\ e.profit_delta # 0

-----------------------------------------------------------------------------
(* C2 *)

\* C2: in a play_round call, a seat whose hand total exceeds 21 loses its bet
\* whatever the dealer's total: money_left falls by the bet, the result's
\* money_delta is +bet, the history entry is a loss, and casino_profit moves by
\* the sum of the money_delta of the results.
C2_BustAlwaysLoses ==
    [][RoundPlayed =>
         /\ \A i \in Occupied(EntryTable) :
               LET player == EntryTable.seats_list[i]
                   bet == NewEvent.initial_bets[i]
               IN Total(NewEvent.hands[i]) > 21 =>
                     /\ money_left'[player] = money_left[player] - bet
                     /\ LastOf(history'[player])[1] = "loss"
                     /\ \E k \in ResultsOf(NewEvent, i) :
                           /\ NewEvent.results[k].player = player
                           /\ NewEvent.results[k].money_delta = bet
         /\ ProfitFollowsResults]_vars

\* a hand over 21 has lost its bet against a dealer who is over 21 too
C2_Witness ==
    \E k \in DOMAIN round_events :
        LET e == round_events[k] IN
        \E j \in DOMAIN e.results :
            LET i == e.results[j].seat_index IN
            /\ Total(e.hands[i]) > 21
            /\ Total(e.dealer_hand) > 21
            /\ e.results[j].money_delta = e.initial_bets[i]
            /\ e.profit_delta > 0

-----------------------------------------------------------------------------
(* C3 *)

\* C3: in a play_round call, a seat whose hand total is at most 21 wins its bet
\* when the dealer is over 21 or the hand is higher than the dealer's, loses it
\* when the hand is lower than the dealer's (dealer at most 21), and neither
\* wins nor loses on equal totals; the bet is the seat's initial bet, and
\* casino_profit moves by the sum of the money_delta of the results.
C3_SettlementUnderCap ==
    [][RoundPlayed =>
         /\ ProfitFollowsResults
         /\ \A i \in Occupied(EntryTable) :
            LET player == EntryTable.seats_list[i]
                bet == NewEvent.initial_bets[i]
                pt == Total(NewEvent.hands[i])
                dt == Total(NewEvent.dealer_hand)
                change == money_left'[player] - money_left[player]
            IN pt <= 21 =>
                 \E k \in ResultsOf(NewEvent, i) :
                    LET delta == NewEvent.results[k].money_delta IN
                    /\ (dt > 21 \/ pt > dt) => change = bet /\ delta = -bet
                    /\ (dt <= 21 /\ pt < dt) => change = -bet /\ delta = bet
                    /\ (dt <= 21 /\ pt = dt) => change = 0 /\ delta = 0]_vars

\* a hand of 20 has won against a dealer's 18, a hand of 18 has lost against 20
\* and a hand has tied with the dealer
C3_Witness ==
    /\ \E k \in DOMAIN round_events :
          LET e == round_events[k] IN
          \E j \in DOMAIN e.results :
              /\ Total(e.hands[e.results[j].seat_index]) = 20
              /\ Total(e.dealer_hand) = 18
              /\ e.results[j].money_delta = -e.initial_bets[e.results[j].seat_index]
    /\ \E k \in DOMAIN round_events :
          LET e == round_events[k] IN
          \E j \in DOMAIN e.results :
              /\ Total(e.hands[e.results[j].seat_index]) = Total(e.dealer_hand)
              /\ e.results[j].money_delta = 0

-----------------------------------------------------------------------------
(* C4 *)

\* the number of places (seats of all tables, waiting pool, finished pool) holding p
PlacesHolding(p) ==
    LET at_table == [t \in DOMAIN tables |->
                        Cardinality({i \in Occupied(tables[t]) :
                                        tables[t].seats_list[i] = p})]
    IN SumOver(at_table, DOMAIN tables)
       + Cardinality({k \in DOMAIN player_pool : player_pool[k] = p})
       + Cardinality({k \in DOMAIN finished_players : finished_players[k] = p})

\* C4: in every state of run_simulation every seat is empty or holds one player,
\* and no player is held by two places among all seats, the waiting pool and
\* the finished pool.
C4_ExclusiveOwnership ==
    /\ \A t \in DOMAIN tables :
          \A i \in 0..(tables[t].num_seats - 1) :
              tables[t].seats_list[i] \in Players \cup {None}
    /\ \A p \in Players : PlacesHolding(p) <= 1

\* at the end of the 180th tick on two tables: the player evicted in the round
\* has been revived behind the finished ones, who took the two vacated seats
C4_Witness ==
    /\ pc = "final"
    /\ sim_time = 1800
    /\ DOMAIN tables = 0..1
    /\ tables[0].seats_list[0] = 3
    /\ tables[1].seats_list[0] = 4
    /\ player_pool = <<1, 2>>
    /\ finished_players = <<>>

-----------------------------------------------------------------------------
(* C5 *)

\* C5: at the turnover of a play_round call, a player seated at entry is in the
\* finished pool and off the seat exactly when, after settlement and decrement,
\* money_left is below 100 or rounds_left is at most 0; otherwise the player
\* keeps the seat.
C5_EvictionRule ==
    [][RoundPlayed =>
         \A i \in Occupied(EntryTable) :
            LET player == EntryTable.seats_list[i]
                seat_after == tables'[table_idx].seats_list[i]
                in_finished == \E k \in DOMAIN finished_players' :
                                   finished_players'[k] = player
            IN IF money_left'[player] < 100 \/ rounds_left'[player] <= 0
               THEN in_finished /\ seat_after # player
               ELSE ~in_finished /\ seat_after = player]_vars

\* in one round a player who had 50 and 3 rounds lost 60 and was evicted with 2
\* rounds left, and a player who came down to exactly 100 kept the seat
C5_Witness ==
    \E k \in DOMAIN round_events :
        LET e == round_events[k] IN
        \E a, b \in DOMAIN e.results :
            LET p == e.results[a].player
                q == e.results[b].player
            IN /\ e.results[a].money_delta = 60
               /\ money_left[p] = -10
               /\ rounds_left[p] = 2
               /\ \E j \in DOMAIN finished_players : finished_players[j] = p
               /\ e.seats_after[e.results[a].seat_index + 1].player # p
               /\ e.results[b].money_delta = 10
               /\ money_left[q] = 100
               /\ rounds_left[q] >= 1
               /\ tables[e.table_id].seats_list[e.results[b].seat_index] = q

-----------------------------------------------------------------------------
(* C6 *)

Min(a, b) == IF a <= b THEN a ELSE b

\* the indices of the empty seats of a seat list, ascending
EmptySeats(seats_list, num_seats) ==
    LET IsEmpty(i) == seats_list[i] = None
    IN SelectSeq([k \in 1..num_seats |-> k - 1], IsEmpty)

\* one fill of a table from a pool, as a queue: the j-th empty seat gets the
\* j-th waiting player, the other empty seats stay empty, taken seats keep
\* their player
QueueFill(before, after, num_seats, pool) ==
    LET empty == EmptySeats(before, num_seats)
        m == Min(Len(empty), Len(pool))
    IN /\ \A j \in 1..m : after[empty[j]] = pool[j]
       /\ \A j \in (m + 1)..Len(empty) : after[empty[j]] = None
       /\ \A i \in 0..(num_seats - 1) : before[i] # None => after[i] = before[i]

\* the pool a fill leaves: the players behind the seated ones, in order
QueueRest(before, num_seats, pool) ==
    SubSeq(pool, Min(Len(EmptySeats(before, num_seats)), Len(pool)) + 1, Len(pool))

\* the fills of tables t, t + 1, ... in turn, each a queue fill from the pool the
\* previous one left, ending with the pool of the next state
RECURSIVE QueueFillFrom(_, _)
QueueFillFrom(t, pool) ==
    IF t \notin DOMAIN tables
    THEN player_pool' = pool
    ELSE /\ QueueFill(tables[t].seats_list, tables'[t].seats_list,
                      tables[t].num_seats, pool)
         /\ QueueFillFrom(t + 1,
                          QueueRest(tables[t].seats_list, tables[t].num_seats, pool))

\* the seats of the played table once the evicted players have left
SeatsAfterEviction ==
    [i \in 0..(EntryTable.num_seats - 1) |->
        IF \E k \in DOMAIN finished_players' :
               finished_players'[k] = EntryTable.seats_list[i]
        THEN None
        ELSE EntryTable.seats_list[i]]

\* C6: every fill_empty_seats call (initial fill, refill inside play_round after
\* the eviction, end-of-tick refill) seats the first min(k, n) waiting players in
\* the k empty seats in ascending seat order, removes them from the pool, keeps
\* the order of the others and leaves taken seats alone.
C6_FillIsFifo ==
    [][/\ (pc \in {"fill", "save"} /\ pc' # pc) => QueueFillFrom(0, player_pool)
       /\ RoundPlayed =>
             /\ QueueFill(SeatsAfterEviction, tables'[table_idx].seats_list,
                          EntryTable.num_seats, player_pool)
             /\ player_pool' =
                   QueueRest(SeatsAfterEviction, EntryTable.num_seats, player_pool)]_vars

\* a round vacated seat 0 of a table whose seat 1 stayed taken, two players
\* waiting: the first of them sits at seat 0, the second still waits
C6_Witness ==
    /\ pc = "clock"
    /\ \E k \in DOMAIN round_events :
          LET e == round_events[k] IN
          /\ Len(e.results) = 2
          /\ e.seats_after[1].player = 4
          /\ e.seats_after[2].player = e.results[2].player
    /\ tables[0].seats_list[0] = 4
    /\ player_pool = <<5>>

-----------------------------------------------------------------------------
(* C7 *)

\* C7: a history never exceeds 5 entries; a round appends one entry at the end
\* of the history of each player seated at its entry, dropping the oldest entry
\* when there were 5, and no other step changes a history.
C7_HistoryWindow ==
    [][/\ \A p \in Players : Len(history'[p]) <= 5
       /\ RoundPlayed =>
             \A p \in Players :
                 IF \E i \in Occupied(EntryTable) : EntryTable.seats_list[i] = p
                 THEN /\ history'[p] # <<>>
                      /\ history'[p] =
                            IF Len(history[p]) < 5
                            THEN Append(history[p], LastOf(history'[p]))
                            ELSE Append(Tail(history[p]), LastOf(history'[p]))
                 ELSE history'[p] = history[p]
       /\ ~RoundPlayed => history' = history]_vars

\* a player with 5 entries has played a round: the 4 newest entries moved up
\* and the round's entry is last
C7_Witness ==
    \E k \in DOMAIN round_events :
        \E j \in DOMAIN round_events[k].results :
            LET p == round_events[k].results[j].player IN
            /\ Len(history[p]) = 5
            /\ SubSeq(history[p], 1, 4) = Tail(FullHistory)
            /\ LastOf(history[p])[2] = round_events[k].initial_bets[
                                           round_events[k].results[j].seat_index]

-----------------------------------------------------------------------------
(* C8 *)

\* C8: the entry a round appends to the history of a player who played is the
\* pair (outcome, bet) with the seat's initial bet, for win, loss and push.
C8_HistoryRecordsBet ==
    [][RoundPlayed =>
         \A i \in Occupied(EntryTable) :
            LET entry == LastOf(history'[EntryTable.seats_list[i]])
            IN /\ entry[1] \in {"win", "loss", "push"}
               /\ entry[2] = NewEvent.initial_bets[i]]_vars

-----------------------------------------------------------------------------
(* C9 *)

\* C9: a revival sweep moves every finished player behind the waiting ones in
\* finished-pool order, and raises money_left by an amount in [500, 1000] and
\* rounds_left by an amount in [3, 10].
C9_RevivalSweep ==
    [][(pc = "revive" /\ pc' = "save" /\ sim_time % 1800 = 0) =>
         /\ player_pool' = player_pool \o finished_players
         /\ \A k \in DOMAIN finished_players :
               LET p == finished_players[k] IN
               /\ money_left'[p] - money_left[p] \in 500..1000
               /\ rounds_left'[p] - rounds_left[p] \in 3..10
               /\ money_left'[p] > money_left[p]
               /\ rounds_left'[p] > rounds_left[p]]_vars

\* after the sweep of the 180th tick a player who was waiting is followed by
\* the two players who were finished, in the order they finished
C9_Witness ==
    /\ pc = "save"
    /\ sim_time = 1800
    /\ player_pool = <<5, 3, 1>>
    /\ money_left[3] >= 520
    /\ rounds_left[3] >= 3

-----------------------------------------------------------------------------
(* C10 *)

\* C10: the sweep runs at the ticks whose simulated time is a positive multiple
\* of 1800, the 180th, 360th, ... tick, and empties the finished pool; at any
\* other tick the revival step changes nothing, and no other step takes a
\* player out of the finished pool.
C10_SweepTiming ==
    [][/\ (pc = "revive" /\ pc' = "save") =>
             /\ sim_time = 10 * (rounds_done + 1)
             /\ IF (rounds_done + 1) % 180 = 0
                THEN /\ sim_time > 0
                     /\ sim_time % 1800 = 0
                     /\ finished_players' = <<>>
                     /\ \A k \in DOMAIN finished_players :
                           \E j \in DOMAIN player_pool' :
                               player_pool'[j] = finished_players[k]
                ELSE /\ sim_time % 1800 # 0
                     /\ UNCHANGED <<finished_players, player_pool,
                                    money_left, rounds_left>>
       /\ pc # "revive" =>
             \A k \in DOMAIN finished_players :
                 \E j \in DOMAIN finished_players' :
                     finished_players'[j] = finished_players[k]]_vars

\* after the sweep of the 180th tick on two tables the finished pool is empty
\* and the player evicted in this tick's round waits behind the older ones
C10_Witness ==
    /\ pc = "save"
    /\ sim_time = 1800
    /\ rounds_done = 179
    /\ finished_players = <<>>
    /\ DOMAIN tables = 0..1
    /\ Len(player_pool) >= 3
    /\ player_pool[1] = 3 /\ player_pool[2] = 4 /\ player_pool[3] = 1
    /\ rounds_left[1] \in {3, 10}

-----------------------------------------------------------------------------
(* C11 *)

\* what is left of the run: the iterations to come, then the steps of this one
Variant ==
    LET width == Cardinality(DOMAIN tables) + 4
        ahead == (rounds_to_play - rounds_done) * width
    IN CASE pc = "fill" -> ahead + width
         [] pc = "play" -> ahead + (Cardinality(DOMAIN tables) - table_idx) + 3
         [] pc = "clock" -> ahead + 3
         [] pc = "revive" -> ahead + 2
         [] pc = "save" -> ahead + 1
         [] pc = "final" -> 1
         [] OTHER -> 0

\* the run is over and what it returns is known
Returned == pc = "done"

\* the model follows the run no further
Capped == pc = "play" /\ rounds_done >= MaxTicks

\* the rounds of a tick: one per table, in the order of the tables
OneRoundPerTable ==
    /\ Len(round_events) = Cardinality(DOMAIN tables)
    /\ \A k \in DOMAIN round_events : round_events[k].table_id = k - 1

\* C11: a run of `minutes` minutes always goes on until it returns, each of its
\* steps bringing the return nearer; every tick plays one round on each table;
\* when the run returns, it has made exactly (minutes * 60) div 10 ticks, each
\* table has played that many rounds, and the time returned is 10 times that
\* number: a run of 0 minutes plays no round and returns 0.
C11_ExactTicks ==
    /\ [](rounds_to_play = (minutes * 60) \div 10)
    /\ [](~Returned /\ ~Capped => ENABLED Next)
    /\ [][Variant' < Variant]_vars
    /\ [](pc = "clock" => OneRoundPerTable)
    /\ [](Returned =>
            /\ rounds_done = (minutes * 60) \div 10
            /\ sim_time = 10 * rounds_done
            /\ \A t \in DOMAIN tables : tables[t].current_round_number = 1 + rounds_done
            /\ minutes = 0 => sim_time = 0 /\ total_hands_played = 0)

\* a run of one minute from construction has returned 60 after six ticks
C11_Witness ==
    /\ Returned
    /\ minutes = 1
    /\ rounds_done = 6
    /\ sim_time = 60
    /\ Cardinality(DOMAIN tables) = 1
    /\ total_hands_played = 2

-----------------------------------------------------------------------------
(* C12 *)

\* the cards of a shoe of the number of decks asked for
ShoeSize == 52 * num_decks

\* the cards drawn and the cards left are the cards built; a draw is possible
\* as long as none has failed, and a failed draw has found the shoe empty
ShoeCounts ==
    /\ Len(deck) + draws = ShoeSize
    /\ draw_error = NoError => ENABLED draw_card
    /\ draw_error # "none" => deck = <<>> /\ draws = ShoeSize

\* a draw from a shoe holding cards returns the top card and removes it; a draw
\* from the empty shoe, once the ShoeSize cards are drawn, fails with `failure`
\* and leaves the shoe empty
DrawStep(failure) ==
    draw_card =>
        IF draws < ShoeSize
        THEN /\ draws' = draws + 1
             /\ deck' = SubSeq(deck, 1, Len(deck) - 1)
             /\ draw_error' = "none"
        ELSE /\ draw_error' = failure
             /\ deck = <<>>
             /\ deck' = <<>>
             /\ draws' = draws

-----------------------------------------------------------------------------
(* C13 *)

\* the roster as a save made now would write it
RosterNow ==
    SavedRecords(collect_all_players(tables, player_pool, finished_players),
                 money_left, rounds_left, history)

\* C13: when an interrupt has cancelled the run and control is back in the
\* caller, a final snapshot of the roster has been made: what was last saved is
\* the roster as it is.
C13_SavedOnInterrupt == pc = "interrupted" => saved_roster = RosterNow

-----------------------------------------------------------------------------
(* C14 *)

\* the rounds table t has played since its construction
RoundsPlayedOn(t) ==
    IF \/ pc = "play" /\ t < table_idx
       \/ pc \in {"clock", "revive", "save"}
    THEN rounds_done + 1
    ELSE rounds_done

\* C14: the round counter of a table is 1 before its first round; a call of
\* play_round on the table adds one to it, whether or not a seat is taken,
\* and reports in round_num the counter it found; no other step changes a
\* counter: the k-th round of a table reports k and leaves the counter at k + 1.
C14_RoundCounter ==
    /\ [](pc = "fill" => \A t \in DOMAIN tables : tables[t].current_round_number = 1)
    /\ [](\A t \in DOMAIN tables :
            tables[t].current_round_number = RoundsPlayedOn(t) + 1)
    /\ [][IF RoundPlayed
          THEN /\ NewEvent.round_num = EntryTable.current_round_number
               /\ NewEvent.round_num = RoundsPlayedOn(table_idx) + 1
               /\ tables'[table_idx].current_round_number = NewEvent.round_num + 1
               /\ \A t \in DOMAIN tables \ {table_idx} :
                     tables'[t].current_round_number = tables[t].current_round_number
          ELSE \A t \in DOMAIN tables :
                  tables'[t].current_round_number = tables[t].current_round_number]_vars

\* the 180th round of a table with no seat taken has been reported and counted
C14_Witness ==
    /\ pc = "clock"
    /\ \E k \in DOMAIN round_events :
          /\ round_events[k].results = <<>>
          /\ round_events[k].round_num = 180
          /\ tables[round_events[k].table_id].current_round_number = 181

-----------------------------------------------------------------------------
(* C15 *)

\* the money_delta of the results of an event, in their order
MoneyDeltas(event) == [k \in DOMAIN event.results |-> event.results[k].money_delta]

\* C15: the profit_delta of the event a play_round call returns is the casino
\* profit at its return minus the casino profit at its entry, and is the sum
\* of the money_delta of its results; a money_delta is what the player's
\* balance lost in the call: the bet for a loss, minus the bet for a win, 0
\* for a push.
C15_ProfitDelta ==
    [][RoundPlayed =>
         /\ NewEvent.profit_delta = casino_profit' - casino_profit
         /\ NewEvent.profit_delta = SumSeq(MoneyDeltas(NewEvent))
         /\ \A k \in DOMAIN NewEvent.results :
               LET r == NewEvent.results[k]
                   bet == NewEvent.initial_bets[r.seat_index]
               IN /\ r.money_delta = money_left[r.player] - money_left'[r.player]
                  /\ r.money_delta \in {bet, -bet, 0}]_vars

\* a round entered with a profit of 240 has cost the house 50: one player lost
\* 10 and the other won 60
C15_Witness ==
    /\ pc = "clock"
    /\ casino_profit = 190
    /\ \E k \in DOMAIN round_events :
          /\ round_events[k].profit_delta = -50
          /\ MoneyDeltas(round_events[k]) = <<10, -60>>

-----------------------------------------------------------------------------
(* C16 *)

\* the list written holds each player of the run once, with the player's fields
EveryPlayerOnce(written) ==
    /\ Len(written) = Cardinality(Players)
    /\ \A p \in Players :
          /\ Cardinality({k \in DOMAIN written : written[k].player = p}) = 1
          /\ \E k \in DOMAIN written :
                written[k] = [player |-> p, money_left |-> money_left[p],
                              rounds_left |-> rounds_left[p], history |-> history[p]]

\* a step that saves writes such a list
SaveWritesRoster ==
    pc \in {"save", "final"} =>
        /\ saved_roster' # NotSaved
        /\ EveryPlayerOnce(saved_roster)'

\* C16: the roster written at the end of every tick and after the last tick
\* holds every player of the initial waiting pool exactly once, whether the
\* player is seated, waiting or finished at that time; a run that has returned
\* has written it.
C16_RosterComplete ==
    /\ [][SaveWritesRoster]_vars
    /\ [](saved_roster # NotSaved => Len(saved_roster) = Cardinality(Players))
    /\ [](pc = "done" => EveryPlayerOnce(saved_roster))

\* the last save of a run has written players seated, waiting and finished
C16_Witness ==
    /\ pc = "done"
    /\ player_pool # <<>>
    /\ finished_players # <<>>
    /\ \E t \in DOMAIN tables : Occupied(tables[t]) # {}
    /\ Len(saved_roster) = Len(player_pool) + Len(finished_players)
                               + Cardinality(Occupied(tables[0]))
    /\ EveryPlayerOnce(saved_roster)

-----------------------------------------------------------------------------
(* C17 *)

\* the step is a refill of the tables: the initial fill or the one ending a tick
Refilled == pc \in {"fill", "save"}

\* a refill with nobody waiting leaves every seat as it is
EmptyPoolFill ==
    (Refilled /\ player_pool = <<>>) => tables' = tables /\ player_pool' = <<>>

\* a round on a table with no seat taken is an event with nothing in it but the
\* dealer's hand, and changes neither the casino's figures nor any player
EmptyTableRound ==
    (RoundPlayed /\ Occupied(EntryTable) = {}) =>
        /\ DOMAIN NewEvent.initial_bets = {}
        /\ NewEvent.results = <<>>
        /\ DOMAIN NewEvent.hands = {}
        /\ Len(NewEvent.dealer_hand) >= 2
        /\ NewEvent.profit_delta = 0
        /\ UNCHANGED <<casino_profit, total_hands_played>>
        /\ UNCHANGED <<money_left, rounds_left, history>>
        /\ UNCHANGED <<player_pool, finished_players>>
        /\ tables'[table_idx].seats_list = EntryTable.seats_list

\* a round is due: the loop is at a table it has yet to play in this tick
RoundDue == pc = "play" /\ table_idx \in DOMAIN tables /\ ~Capped

\* C17: a refill with an empty waiting pool leaves the empty seats empty and
\* fails in no way; a round on a table without any taken seat returns as any
\* other, with no bet, no result and no player hand, a dealer hand of two cards
\* or more and a profit_delta of 0, and leaves casino_profit,
\* total_hands_played and every player as they were.
C17_EmptiesAreNormal ==
    /\ [](RoundDue => ENABLED PlayTable)
    /\ [](pc = "fill" => ENABLED InitialFill)
    /\ [](pc = "save" => ENABLED SaveAndRefill)
    /\ [][EmptyPoolFill]_vars
    /\ [][EmptyTableRound]_vars

\* a round has been played at a table of two empty seats with nobody waiting
C17_Witness ==
    /\ pc = "clock"
    /\ player_pool = <<>>
    /\ \E k \in DOMAIN round_events :
          LET e == round_events[k] IN
          /\ tables[e.table_id].num_seats = 2
          /\ Occupied(tables[e.table_id]) = {}
          /\ e.results = <<>>
          /\ e.profit_delta = 0
          /\ Len(e.dealer_hand) = 3

-----------------------------------------------------------------------------
(* C18 *)

\* the total of the first n cards of a hand of card values
TotalOfFirst(hand, n) == SumSeq(SubSeq(hand, 1, n))

\* the hand began with two cards, took each further card on a total below 18
\* and stopped on a total of 18 or more, 28 at most
HitRuleKept(hand) ==
    /\ Len(hand) >= 2
    /\ \A n \in 2..(Len(hand) - 1) : TotalOfFirst(hand, n) < 18
    /\ TotalOfFirst(hand, Len(hand)) >= 18
    /\ TotalOfFirst(hand, Len(hand)) <= 28
    /\ Len(hand) > 2 => TotalOfFirst(hand, Len(hand) - 1) < 18

-----------------------------------------------------------------------------
(* C19 *)

\* the seats an event holds a result for
ResultSeats(event) == {event.results[k].seat_index : k \in DOMAIN event.results}

\* the players a table holds
Seated(table) == {table.seats_list[i] : i \in Occupied(table)}

\* C19: in the event of a round, the seats that have a bet, those that have a
\* hand and those that have a result are each exactly the seats taken when the
\* round began; each of these seats has one result, naming the player who held
\* it then; every bet lies between 10 and 100; a player seated by the refill
\* inside the call has no bet, no hand and no result for that round.
C19_EventCoversEntrySeats ==
    [][RoundPlayed =>
         LET taken == Occupied(EntryTable)
             newcomers == Seated(tables'[table_idx]) \ Seated(EntryTable)
         IN /\ DOMAIN NewEvent.initial_bets = taken
            /\ DOMAIN NewEvent.hands = taken
            /\ ResultSeats(NewEvent) = taken
            /\ \A i \in taken :
                  /\ Cardinality(ResultsOf(NewEvent, i)) = 1
                  /\ \A k \in ResultsOf(NewEvent, i) :
                        NewEvent.results[k].player = EntryTable.seats_list[i]
                  /\ NewEvent.initial_bets[i] >= 10
                  /\ NewEvent.initial_bets[i] <= 100
            /\ \A p \in newcomers :
                  \A k \in DOMAIN NewEvent.results : NewEvent.results[k].player # p]_vars

\* a round of two taken seats has evicted the player of seat 0 and seated the
\* first waiting player there: the event's bet, hand and result of seat 0 are
\* the evicted player's
C19_Witness ==
    /\ pc = "clock"
    /\ tables[0].seats_list[0] = 4
    /\ 1 \in Range(finished_players)
    /\ \E k \in DOMAIN round_events :
          LET e == round_events[k] IN
          /\ DOMAIN e.initial_bets = {0, 1}
          /\ DOMAIN e.hands = {0, 1}
          /\ Len(e.results) = 2
          /\ e.results[1].seat_index = 0
          /\ e.results[1].player = 1
          /\ e.results[2].player = 2

-----------------------------------------------------------------------------
(* C20 *)

\* entry k of seats_after describes seat k - 1 as the table holds it at the return
SeatDescribed(event, k) ==
    LET entry == event.seats_after[k]
        holder == tables'[table_idx].seats_list[k - 1]
    IN /\ entry.seat = k - 1
       /\ IF holder # None
          THEN entry = [seat |-> k - 1, player |-> holder,
                        money |-> money_left'[holder],
                        rounds |-> rounds_left'[holder]]
          ELSE entry = [seat |-> k - 1, player |-> None]

\* C20: the seats_after of the event of a round has one entry for each seat of
\* the table, in the order of the seats; the entry of a seat gives the player
\* who holds the seat when the call returns, after the eviction and the
\* refill, with the balance and the rounds left that player then has (a
\* player just seated included), or marks the seat empty.
C20_SeatsAfter ==
    [][RoundPlayed =>
         /\ Len(NewEvent.seats_after) = EntryTable.num_seats
         /\ \A k \in 1..EntryTable.num_seats : SeatDescribed(NewEvent, k)]_vars

\* seats_after shows the player just seated on seat 0, who has not played, and
\* the player staying on seat 1 with a balance of 100 after a lost bet of 10
C20_Witness ==
    \E k \in DOMAIN round_events :
        round_events[k].seats_after =
            <<[seat |-> 0, player |-> 4, money |-> 1000, rounds |-> 5],
              [seat |-> 1, player |-> 2, money |-> 100, rounds |-> 1]>>

-----------------------------------------------------------------------------
(* C21 *)

\* C21: a play_round call takes one round from every player seated at the table
\* when it begins, whatever the outcome of the hand, and leaves the rounds of
\* everybody else as they were: the waiting, the finished, the players of the
\* other tables and the player the refill of the call seats.
C21_RoundsDecrement ==
    [][RoundPlayed =>
         \A p \in Players :
            IF p \in Seated(EntryTable)
            THEN rounds_left'[p] = rounds_left[p] - 1
            ELSE rounds_left'[p] = rounds_left[p]]_vars

\* a round has taken a round from a winner and from a loser, the loser being
\* evicted and the first waiting player seated with rounds untouched
C21_Witness ==
    /\ pc = "clock"
    /\ sim_time = 50
    /\ rounds_left[1] = 2
    /\ rounds_left[2] = 1
    /\ rounds_left[4] = 5
    /\ 2 \in Range(finished_players)
    /\ 4 \in Seated(tables[0])
    /\ \E k \in DOMAIN round_events :
          /\ round_events[k].results[1].money_delta < 0
          /\ round_events[k].results[2].money_delta > 0

-----------------------------------------------------------------------------
(* C22 *)

\* C22: total_hands_played is 0 before the first round, grows in a play_round
\* call by the number of results of the event of the call, which is the number
\* of seats taken when the call began (the dealer's hand adds nothing), and is
\* changed by no other step: it always equals the number of results of all
\* events so far.
C22_HandsCountResults ==
    /\ [](pc = "fill" => total_hands_played = 0)
    /\ [][IF RoundPlayed
          THEN /\ total_hands_played' - total_hands_played = Len(NewEvent.results)
               /\ Len(NewEvent.results) = Cardinality(Occupied(EntryTable))
          ELSE total_hands_played' = total_hands_played]_vars

\* a round of two taken seats has brought the count from 17 to 19
C22_Witness ==
    /\ pc = "clock"
    /\ total_hands_played = 19
    /\ \E k \in DOMAIN round_events : Len(round_events[k].results) = 2

-----------------------------------------------------------------------------
(* C23 *)

\* C23: a play_round call on a table leaves the seats and the round counter of
\* every other table as they were, and leaves the balance, the rounds left and
\* the history of every player who was not seated at that table when the call
\* began as they were.
C23_OtherTablesUntouched ==
    [][RoundPlayed =>
         /\ \A t \in DOMAIN tables \ {table_idx} :
               /\ tables'[t].seats_list = tables[t].seats_list
               /\ tables'[t].current_round_number = tables[t].current_round_number
         /\ \A p \in Players \ Seated(EntryTable) :
               /\ money_left'[p] = money_left[p]
               /\ rounds_left'[p] = rounds_left[p]
               /\ history'[p] = history[p]]_vars

\* the first of two tables has played a round that moved money while the
\* player seated at the second table, yet to play, holds what he held
C23_Witness ==
    /\ pc = "play"
    /\ table_idx = 1
    /\ tables[1].seats_list[0] = 2
    /\ money_left[2] = 100
    /\ rounds_left[2] = 4
    /\ Len(history[2]) = 4
    /\ \E k \in DOMAIN round_events :
          /\ round_events[k].table_id = 0
          /\ round_events[k].profit_delta # 0

-----------------------------------------------------------------------------
(* C24 *)

\* the rounds of a tick played in the given order of the tables, from state st;
\* inputs[t] holds the bets, the hands and the dealer's hand of table t
RECURSIVE PlayInOrder(_, _, _)
PlayInOrder(order, inputs, st) ==
    IF order = <<>> THEN st
    ELSE LET t == Head(order)
         IN PlayInOrder(Tail(order), inputs,
                        RoundOutcome(t, inputs[t].initial_bets, inputs[t].player_hands,
                                     inputs[t].dealer_hand, st))

\* what the tables of the casino can bet and draw in a tick
TickInputs ==
    {inputs \in [DOMAIN tables ->
                    UNION {[initial_bets : [Occupied(tables[t]) -> Bets],
                            player_hands : [Occupied(tables[t]) -> PlayedHands],
                            dealer_hand : PlayedHands] : t \in DOMAIN tables}] :
        \A t \in DOMAIN tables :
            /\ DOMAIN inputs[t].initial_bets = Occupied(tables[t])
            /\ DOMAIN inputs[t].player_hands = Occupied(tables[t])}

\* the tables in the order of the source, and in the opposite order
Ascending == [k \in 1..Cardinality(DOMAIN tables) |-> k - 1]
Descending == [k \in 1..Cardinality(DOMAIN tables) |-> Cardinality(DOMAIN tables) - k]

\* a tick is about to begin
TickBegins == pc = "play" /\ table_idx = 0

\* the seats of every table
SeatsOf(tbls) == [t \in DOMAIN tbls |-> tbls[t].seats_list]

\* the players seated at some table
SeatedAnywhere(tbls) == UNION {Seated(tbls[t]) : t \in DOMAIN tbls}

\* C24 as stated: for the same bets and hands of each table, the rounds of a
\* tick played in either order of the tables give the same seats of every
\* table, the same waiting pool and finished list, the same balances and the
\* same casino profit.
C24_OrderIrrelevant ==
    TickBegins =>
        \A inputs \in TickInputs :
            LET a == PlayInOrder(Ascending, inputs, RoundState)
                b == PlayInOrder(Descending, inputs, RoundState)
            IN /\ SeatsOf(a.tables) = SeatsOf(b.tables)
               /\ a.player_pool = b.player_pool
               /\ a.finished_players = b.finished_players
               /\ a.money = b.money
               /\ a.profit = b.profit

\* C24 amended: for the same bets and hands of each table, the rounds of a tick
\* played in either order of the tables give the same balances, rounds left and
\* histories, the same casino profit and count of hands, the same round
\* counters, the same waiting pool, the same finished players and the same
\* seated players; the seat a waiting player gets, the table left with an
\* empty seat and the order of the finished list depend on the order of play.
C24_OrderAffectsSeatingOnly ==
    TickBegins =>
        \A inputs \in TickInputs :
            LET a == PlayInOrder(Ascending, inputs, RoundState)
                b == PlayInOrder(Descending, inputs, RoundState)
            IN /\ a.money = b.money
               /\ a.rounds = b.rounds
               /\ a.history = b.history
               /\ a.profit = b.profit
               /\ a.hands = b.hands
               /\ \A t \in DOMAIN tables :
                     a.tables[t].current_round_number = b.tables[t].current_round_number
               /\ a.player_pool = b.player_pool
               /\ Range(a.finished_players) = Range(b.finished_players)
               /\ SeatedAnywhere(a.tables) = SeatedAnywhere(b.tables)

\* a tick begins with two taken tables and one player waiting, and bets and
\* hands exist that evict both seated players: the waiting player sits at the
\* table that plays first, while the balances are those of either order
C24_Witness ==
    /\ TickBegins
    /\ player_pool = <<3>>
    /\ \E inputs \in TickInputs :
          LET a == PlayInOrder(Ascending, inputs, RoundState)
              b == PlayInOrder(Descending, inputs, RoundState)
          IN /\ a.tables[0].seats_list[0] = 3
             /\ a.tables[1].seats_list[0] = None
             /\ b.tables[0].seats_list[0] = None
             /\ b.tables[1].seats_list[0] = 3
             /\ a.finished_players = <<1, 2>>
             /\ b.finished_players = <<2, 1>>
             /\ a.money = b.money
             /\ a.profit # casino_profit

-----------------------------------------------------------------------------
(* C25 *)

\* the blackjack value of a rank: 11 for the ace, 10 for the faces, the pips otherwise
PipValue ==
    [rank \in {"A", "2", "3", "4", "5", "6", "7", "8", "9", "10", "J", "Q", "K"} |->
        CASE rank = "A" -> 11
          [] rank \in {"J", "Q", "K"} -> 10
          [] rank = "2" -> 2
          [] rank = "3" -> 3
          [] rank = "4" -> 4
          [] rank = "5" -> 5
          [] rank = "6" -> 6
          [] rank = "7" -> 7
          [] rank = "8" -> 8
          [] rank = "9" -> 9
          [] OTHER -> 10]

\* the 52 cards of a deck
FullDeck ==
    {<<rank, suit, PipValue[rank]>> :
        rank \in DOMAIN PipValue, suit \in {"Heart", "Spade", "Club", "Diamond"}}

\* how often a card occurs in a sequence of cards
Copies(cards, card) == Cardinality({k \in DOMAIN cards : cards[k] = card})

\* the two sequences hold the same cards, each as often
SameCards(cards, others) ==
    /\ Len(cards) = Len(others)
    /\ \A card \in Range(cards) \cup Range(others) :
          Copies(cards, card) = Copies(others, card)

\* the cards left and the cards drawn are num_decks copies of each card of a deck
ShoeComposition ==
    /\ Cardinality(FullDeck) = 52
    /\ Range(deck) \cup Range(drawn) \subseteq FullDeck
    /\ \A card \in FullDeck : Copies(deck, card) + Copies(drawn, card) = num_decks

\* a step of the shoe: a draw that succeeds takes the top card off, any other
\* step (a shuffle, a draw that fails) keeps the cards left and changes at most
\* their order, and no step adds a card
ShoeStep ==
    /\ IF draws' # draws
       THEN /\ deck' = SubSeq(deck, 1, Len(deck) - 1)
            /\ Len(deck') = Len(deck) - 1
            /\ drawn' = Append(drawn, deck[Len(deck)])
       ELSE /\ SameCards(deck', deck)
            /\ drawn' = drawn
    /\ Len(deck') <= Len(deck)
    /\ Range(deck') \subseteq Range(deck)

\* C25: at all times the cards left in a shoe of N decks and the cards drawn
\* from it are together exactly N copies of each of the 52 (rank, suit) cards,
\* the ace counting 11, the faces 10 and the others their pips; a shuffle
\* changes the order only, a draw removes exactly one card, and no step adds a
\* card to the shoe.
C25_ShoeComposition == []ShoeComposition /\ [][ShoeStep]_vars

\* a shuffled shoe of one deck from which 5 cards are drawn, the first not
\* being the last card built
C25_Witness ==
    /\ num_decks = 1
    /\ Len(drawn) = 5
    /\ Len(deck) = 47
    /\ drawn[1] # <<"K", "Diamond", 10>>
    /\ drawn[1] # <<"A", "Heart", 11>>

-----------------------------------------------------------------------------
(* C26 *)

\* a player fit to play: a balance of 100 or more and a round or more left
FitToPlay(p) == money_left[p] >= 100 /\ rounds_left[p] >= 1

\* the tables that have yet to play their round of the coming or current tick
YetToPlay ==
    IF pc \in {"fill", "final", "done"} THEN DOMAIN tables
    ELSE IF pc = "play" THEN {t \in DOMAIN tables : t >= table_idx}
    ELSE {}

\* the players waiting and the players seated for a coming round are fit to
\* play, and nobody owes money or rounds
OnlyFitPlayersPlay ==
    /\ \A p \in Range(player_pool) : FitToPlay(p)
    /\ \A t \in YetToPlay : \A p \in Seated(tables[t]) : FitToPlay(p)
    /\ \A p \in Players : money_left[p] >= 0 /\ rounds_left[p] >= 0

\* runs whose players were all fit to play when they waited at the start
InitFit == InitAll /\ OnlyFitPlayersPlay

SpecFit == InitFit /\ [][Next]_vars

\* C26: in a run whose players all had a balance of at least 100 and at least
\* one round left when they waited at the start, every player seated when a
\* round of the table begins, and every player waiting, has a balance of at
\* least 100 and at least one round left, though the refill seats whoever
\* waits; hence no balance ever falls below 0.
C26_OnlyFitPlayersPlay == OnlyFitPlayersPlay

\* a player who began a round with exactly 100 has lost 60, was evicted with
\* 40 and revived, and waits for a seat again
C26_Witness ==
    /\ pc = "done"
    /\ sim_time = 1800
    /\ 2 \in Range(player_pool)
    /\ money_left[2] \in {540, 1040}
    /\ LastOf(history[2]) = <<"loss", 60>>

-----------------------------------------------------------------------------
(* C27 *)

\* the money of the house and of all players together
Books == casino_profit + SumOver(money_left, Players)

\* what a step of the sweep grants to player p
TopUp(p) == IF p \in Range(finished_players) THEN money_left'[p] - money_left[p] ELSE 0

\* the step is a revival sweep
Sweep == pc = "revive" /\ sim_time % 1800 = 0

\* a sweep adds to the books the top-ups it grants to the finished players and
\* nothing else; any other step leaves the books as they are
BooksStep ==
    IF Sweep
    THEN /\ Books' - Books = SumOver([p \in Players |-> TopUp(p)], Players)
         /\ casino_profit' = casino_profit
         /\ \A p \in Players \ Range(finished_players) : money_left'[p] = money_left[p]
         /\ \A p \in Range(finished_players) : TopUp(p) >= 500 /\ TopUp(p) <= 1000
    ELSE Books' = Books

\* C27: the casino profit, 0 at the start, plus the balances of all players,
\* seated, waiting and finished, is changed by the top-ups of the revival
\* sweeps only: it always equals the sum of the initial balances plus the
\* top-ups granted so far, since rounds, evictions and refills neither create
\* nor destroy money.
C27_MoneyConserved ==
    /\ [](pc = "fill" => casino_profit = 0)
    /\ [][BooksStep]_vars

\* books of 1640 before the 180th tick: the round has moved money between a
\* player and the house, and the sweep has added the top-ups of three or four
\* players
C27_Witness ==
    /\ pc = "save"
    /\ sim_time = 1800
    /\ Cardinality(DOMAIN tables) = 2
    /\ casino_profit # -50
    /\ Books >= 1640 + 1500
    /\ money_left[3] \in {590, 1090}

-----------------------------------------------------------------------------
(* C28 *)

\* table t has a seat nobody holds
HasEmptySeat(tbls, t) == \E i \in 0..(tbls[t].num_seats - 1) : tbls[t].seats_list[i] = None

\* the ticks begun and ended, up to the sweep: the tables are as the last refill left them
BetweenRefillAndSweep == pc \in {"play", "clock", "final", "done"}

\* C28: when a play_round call returns, its table has an empty seat only if
\* nobody waits, the seats vacated by the eviction of the call being refilled
\* in the call; and from the end of a tick on, until the next sweep, no table
\* has an empty seat while a player waits.
C28_NoSeatWasted ==
    /\ [][RoundPlayed =>
            (HasEmptySeat(tables', table_idx) => player_pool' = <<>>)]_vars
    /\ [](BetweenRefillAndSweep =>
            \A t \in DOMAIN tables : HasEmptySeat(tables, t) => player_pool = <<>>)

\* a round has evicted both players of a table of two seats, and the two
\* players who waited first hold the seats when it returns
C28_Witness ==
    /\ pc = "clock"
    /\ tables[0].seats_list = [i \in {0, 1} |-> i + 4]
    /\ {1, 2} \subseteq Range(finished_players)
    /\ \E k \in DOMAIN round_events :
          round_events[k].seats_after[2].player = 5


-----------------------------------------------------------------------------
(* C29 *)

\* cards of the shoe the round has drawn so far
CardsDrawn == DefaultShoeSize - shoe_size

\* C29: with the default shoe of 20 decks (1040 cards) and a table of at most
\* 10 seats, no hand of a round holds more than 9 cards and no card is asked
\* of an empty shoe, whatever values the shoe yields
C29_ShoeNeverEmpty ==
    /\ DefaultShoeSize = 1040
    /\ Len(open_hand) <= 9
    /\ CardsDrawn <= (MaxSeats + 1) * 9
    /\ DrawDue => shoe_size > 0

\* the dealer of a full table of 10 seats holds nine cards, after ten hands of
\* two cards
C29_Witness ==
    /\ hands_to_deal = 1
    /\ Len(open_hand) = 9
    /\ CardsDrawn = 2 * MaxSeats + 9
    /\ SubSeq(open_hand, 1, 8) = [i \in 1..8 |-> 2]


-----------------------------------------------------------------------------
(* C30 *)

\* the lists and totals of the results of an event, each result under the
\* name of the player who played the hand
RECURSIVE BoxOfPlayed(_, _, _)
BoxOfPlayed(k, event, box) ==
    IF k > Len(event.results)
    THEN box
    ELSE BoxOfPlayed(k + 1, event,
                     Counted(box, event.results[k].player, event.results[k].money_delta))

\* a row that shows an outcome shows the outcome and the name of the player
\* who played the hand of the seat
RowsShowWhoPlayed(event) ==
    LET view == display_table_view(event) IN
    \A k \in DOMAIN view.rows :
        view.rows[k].outcome # NoOutcome =>
            \E j \in DOMAIN event.results :
                /\ event.results[j].seat_index = view.rows[k].seat
                /\ event.results[j].player = view.rows[k].name
                /\ OutcomeText(event.results[j].money_delta) = view.rows[k].outcome

\* the lists and the totals are those of the results, under the players who played
BoxCountsEveryResult(event) ==
    display_table_view(event).box = BoxOfPlayed(1, event, EmptyBox)

\* a player of the event was evicted at turnover
EvictedInRound(event) ==
    \E j \in DOMAIN event.results :
        \A k \in DOMAIN event.seats_after :
            event.seats_after[k].seat = event.results[j].seat_index
                => event.seats_after[k].player # event.results[j].player

\* C30: in the table view of every round event, the outcome of a seat's row
\* and every name and amount of the winners, losers and push lists and of the
\* totals belong to the player who played the seat's hand, and every result
\* is counted, also when that player was evicted and the seat was refilled
\* or left empty
C30_ViewShowsWhoPlayed ==
    \A k \in DOMAIN round_events :
        /\ RowsShowWhoPlayed(round_events[k])
        /\ BoxCountsEveryResult(round_events[k])

\* the same for the events of the rounds that evict nobody
C30_ViewWithoutEviction ==
    \A k \in DOMAIN round_events :
        ~EvictedInRound(round_events[k]) =>
            /\ RowsShowWhoPlayed(round_events[k])
            /\ BoxCountsEveryResult(round_events[k])

====
